---- MODULE Spec2Model ----
(***************************************************************************)
(* Model of the auto-dev plugin hooks (plugins/auto-dev-plugin/hooks):     *)
(*   test-gate.py      SubagentStop hook, runs backend/frontend tests      *)
(*   smart-stop.py     Stop hook, runs testCommands when code was changed  *)
(*   classify-prompt.py, log-prompt.py   UserPromptSubmit hooks            *)
(*   activity_logger.py  JSONL activity log                                *)
(* Each hook process is one action: it reads config.json, its inputs       *)
(* (stdin, git, the outcome of each test command), writes the log, prints  *)
(* to stdout and exits.                                                    *)
(***************************************************************************)
EXTENDS Integers, Sequences, FiniteSets, TLC

VARIABLES
    config,      \* content of config.json (shared by every hook)
    writable,    \* whether the plugin directory tree can be written
    dirExists,   \* whether the directory of the log file exists
    fileExists,  \* whether the log file exists
    log,         \* lines of the log file, oldest first
    clock,       \* datetime.now(), one tick per hook process
    hook,        \* the hook process that ran last
    stdin,       \* what that process read from stdin / git / config
    launched,    \* test commands it launched, <<name, outcome>> in order
    stdout,      \* objects it printed on stdout
    exitCode,    \* its exit status
    logRaised,   \* whether its logging call raised to the caller
    prompt,      \* classifier input being typed: a sequence of lines
    phase,       \* "typing" | "done"
    requests,    \* result of split_requests(prompt)
    overall,     \* first component of classify_prompt(prompt)
    classified   \* second component of classify_prompt(prompt)

hookVars == <<config, writable, dirExists, fileExists, log, clock, hook,
              stdin, launched, stdout, exitCode, logRaised>>
textVars == <<prompt, phase, requests, overall, classified>>
vars == <<hookVars, textVars>>

\* ------------------------------------------------------------------ bounds
MaxEvents == 2      \* hook processes per behaviour

\* ---------------------------------------------------------- configuration
Names == {"backend", "frontend", "e2e"}

\* order of the keys of testCommands in config.json
CommandOrder == <<"backend", "frontend", "e2e">>

\* a testCommands entry: key missing, "enabled": true, "enabled": false,
\* or an entry without an "enabled" key
EntryKinds == {"absent", "on", "off", "unset"}

Outcomes == {"pass", "nonzero", "timeout", "error"}

NoCommands == [n \in Names |-> "absent"]

TestCommandConfigs ==
    {tc \in [Names -> EntryKinds] : tc["e2e"] \in {"absent", "on"}}

\* config.json: missing, not parseable, or an object with these sections
Configs ==
    {[kind |-> "absent", logging |-> "unset", testCommands |-> NoCommands,
      codeExtensions |-> "unset"],
     [kind |-> "malformed", logging |-> "unset", testCommands |-> NoCommands,
      codeExtensions |-> "unset"]}
    \cup
    [kind : {"valid"}, logging : {"on", "off", "unset"},
     testCommands : TestCommandConfigs, codeExtensions : {"unset", "docs"}]

Last(s) == s[Len(s)]
Front(s) == SubSeq(s, 1, Len(s) - 1)

\* json.load raises on a malformed file (the three get_config functions)
ConfigRaises(c) == c.kind = "malformed"

\* ------------------------------------------------------ activity_logger.py
\* the file system under the plugin directory, as the logger sees it
FileSystem == [writable |-> writable, dirExists |-> dirExists,
               fileExists |-> fileExists, log |-> log]

\* activity_logger.get_config: the default when config.json is missing
LoggerEnabled(c) ==
    IF c.kind = "absent" THEN TRUE
    ELSE CASE c.logging = "on" -> TRUE
           [] c.logging = "off" -> FALSE
           [] c.logging = "unset" -> TRUE

\* log_path.parent.mkdir(parents=True, exist_ok=True)
Mkdir(fs) ==
    IF fs.dirExists THEN [raised |-> FALSE, fs |-> fs]
    ELSE IF fs.writable
         THEN [raised |-> FALSE, fs |-> [fs EXCEPT !.dirExists = TRUE]]
         ELSE [raised |-> TRUE, fs |-> fs]

\* with open(log_path, "w"): the file is truncated before the write
FileAppend_truncating(fs, line) ==
    IF fs.dirExists /\ fs.writable
    THEN [raised |-> FALSE,
          fs |-> [fs EXCEPT !.fileExists = TRUE, !.log = <<line>>]]
    ELSE [raised |-> TRUE, fs |-> fs]

\* with open(log_path, "a") as f: f.write(json.dumps(entry) + "\n")
FileAppend(fs, line) ==
    IF fs.dirExists /\ fs.writable
    THEN [raised |-> FALSE,
          fs |-> [fs EXCEPT !.fileExists = TRUE, !.log = Append(fs.log, line)]]
    ELSE [raised |-> TRUE, fs |-> fs]

\* get_log_path followed by the append, inside one try block: the first
\* exception abandons the rest, what was done before it stays done
WriteLine(fs, line) ==
    LET d == Mkdir(fs)
    IN  IF d.raised THEN d ELSE FileAppend(d.fs, line)

LogEntry(now, event_type, hook_name, data, success) ==
    [timestamp |-> now, event_type |-> event_type, hook |-> hook_name,
     success |-> success, data |-> data]

EntryKeys == {"timestamp", "event_type", "hook", "success", "data"}

\* log_activity with get_log_path called before the enabled check
log_activity_path_first(c, fs, now, event_type, hook_name, data, success) ==
    IF ConfigRaises(c) THEN [raised |-> TRUE, fs |-> fs]
    ELSE LET d == Mkdir(fs)
         IN  IF ~LoggerEnabled(c) THEN [raised |-> FALSE, fs |-> d.fs]
             ELSE IF d.raised THEN [raised |-> FALSE, fs |-> d.fs]
             ELSE [raised |-> FALSE,
                   fs |-> FileAppend(d.fs,
                            LogEntry(now, event_type, hook_name, data, success)).fs]

\* log_activity: get_config() is called outside the try block, so its
\* exception reaches the caller; everything after the enabled check is
\* inside try/except Exception: pass
log_activity(c, fs, now, event_type, hook_name, data, success) ==
    IF ConfigRaises(c) THEN [raised |-> TRUE, fs |-> fs]
    ELSE IF ~LoggerEnabled(c) THEN [raised |-> FALSE, fs |-> fs]
    ELSE [raised |-> FALSE,
          fs |-> WriteLine(fs, LogEntry(now, event_type, hook_name,
                                        data, success)).fs]

\* Python's True / False / None where one field holds any of the three
Py(b) == IF b THEN "True" ELSE "False"

log_subagent_stop(c, fs, now, tests_passed, backend_passed, frontend_passed, blocked, error_summary) ==
    log_activity(c, fs, now, "subagent_test_gate", "SubagentStop",
                 [tests_passed |-> tests_passed,
                  backend_passed |-> backend_passed,
                  frontend_passed |-> frontend_passed,
                  blocked |-> blocked,
                  error_summary |-> error_summary],
                 tests_passed)

log_session_stop(c, fs, now, code_modified, tests_run, tests_passed, files_changed) ==
    log_activity(c, fs, now, "session_stop", "Stop",
                 [code_modified |-> code_modified, tests_run |-> tests_run,
                  tests_passed |-> tests_passed,
                  files_changed |-> files_changed],
                 IF tests_run THEN tests_passed = "True" ELSE TRUE)

log_prompt_classification(c, fs, now, prompt_preview, classification, is_multi_request, request_count, coding_count, quick_count) ==
    log_activity(c, fs, now, "prompt_classification", "UserPromptSubmit",
                 [prompt_preview |-> prompt_preview,
                  classification |-> classification,
                  is_multi_request |-> is_multi_request,
                  request_count |-> request_count,
                  coding_count |-> coding_count,
                  quick_count |-> quick_count],
                 TRUE)

\* log-prompt.py log_prompt: no configuration is read, the whole body is
\* inside try/except Exception: pass
log_prompt(fs, now, prompt_preview) ==
    WriteLine(fs, LogEntry(now, "prompt_submitted", "UserPromptSubmit",
                           [prompt_preview |-> prompt_preview], TRUE)).fs

\* ------------------------------------------- test-gate.py / smart-stop.py
\* entry.get("enabled", default) of a testCommands entry
EnabledOr(entry, default) ==
    CASE entry = "on" -> TRUE
      [] entry = "off" -> FALSE
      [] OTHER -> default

Failed(outcome) == outcome # "pass"

\* run_test_command (the same function in both hooks): returns
\* (passed, output); launched records the subprocess it started
run_test_command(name, entry, outcome) ==
    IF ~EnabledOr(entry, TRUE)
    THEN [passed |-> TRUE, output |-> <<>>, launched |-> <<>>]
    ELSE CASE outcome = "pass" ->
                [passed |-> TRUE, output |-> <<>>,
                 launched |-> <<<<name, outcome>>>>]
           [] outcome = "nonzero" ->
                [passed |-> FALSE, output |-> <<name, "tests failed">>,
                 launched |-> <<<<name, outcome>>>>]
           [] outcome = "timeout" ->
                [passed |-> FALSE, output |-> <<name, "tests timed out">>,
                 launched |-> <<<<name, outcome>>>>]
           [] outcome = "error" ->
                [passed |-> FALSE, output |-> <<name, "tests error">>,
                 launched |-> <<<<name, outcome>>>>]

\* test_commands.get(name, {"enabled": False})
GetOrDisabled(tc, name) == IF tc[name] = "absent" THEN "off" ELSE tc[name]

\* the configured commands a hook sees: {} when config.json is missing
TestCommandsOf(c) == IF c.kind = "valid" THEN c.testCommands ELSE NoCommands

\* test-gate.py run_tests with the frontend result left out of all_passed
gate_run_tests_backend_only(tc, outcome) ==
    LET b == IF EnabledOr(GetOrDisabled(tc, "backend"), FALSE)
             THEN run_test_command("backend", tc["backend"], outcome["backend"])
             ELSE [passed |-> TRUE, output |-> <<>>, launched |-> <<>>]
        f == IF EnabledOr(GetOrDisabled(tc, "frontend"), FALSE)
             THEN run_test_command("frontend", tc["frontend"], outcome["frontend"])
             ELSE [passed |-> TRUE, output |-> <<>>, launched |-> <<>>]
    IN  [all_passed |-> b.passed,
         backend_passed |-> b.passed,
         frontend_passed |-> f.passed,
         output |-> (IF b.passed THEN <<>> ELSE <<b.output>>)
                    \o (IF f.passed THEN <<>> ELSE <<f.output>>),
         launched |-> b.launched \o f.launched]

\* test-gate.py run_tests: the backend and the frontend command only
gate_run_tests(tc, outcome) ==
    LET b == IF EnabledOr(GetOrDisabled(tc, "backend"), FALSE)
             THEN run_test_command("backend", tc["backend"], outcome["backend"])
             ELSE [passed |-> TRUE, output |-> <<>>, launched |-> <<>>]
        f == IF EnabledOr(GetOrDisabled(tc, "frontend"), FALSE)
             THEN run_test_command("frontend", tc["frontend"], outcome["frontend"])
             ELSE [passed |-> TRUE, output |-> <<>>, launched |-> <<>>]
    IN  [all_passed |-> b.passed /\ f.passed,
         backend_passed |-> b.passed,
         frontend_passed |-> f.passed,
         output |-> (IF b.passed THEN <<>> ELSE <<b.output>>)
                    \o (IF f.passed THEN <<>> ELSE <<f.output>>),
         launched |-> b.launched \o f.launched]

\* smart-stop.py run_tests, the loop over test_commands.items() from its
\* i-th key on: the failures and the launches of the rest of the loop
RECURSIVE stop_loop(_, _, _)
stop_loop(tc, outcome, i) ==
    IF i > Len(CommandOrder) THEN [failures |-> <<>>, launched |-> <<>>]
    ELSE LET name == CommandOrder[i]
             rest == stop_loop(tc, outcome, i + 1)
         IN  IF tc[name] # "absent" /\ EnabledOr(tc[name], FALSE)
             THEN LET r == run_test_command(name, tc[name], outcome[name])
                  IN  [failures |-> (IF r.passed THEN <<>> ELSE <<r.output>>)
                                    \o rest.failures,
                       launched |-> r.launched \o rest.launched]
             ELSE rest

\* smart-stop.py run_tests judging success by the last command launched
stop_run_tests_last_only(tc, outcome) ==
    LET r == stop_loop(tc, outcome, 1)
    IN  [success |-> r.launched = <<>> \/ ~Failed(Last(r.launched)[2]),
         output |-> r.failures, launched |-> r.launched]

\* smart-stop.py run_tests: (len(failures) == 0, joined failures)
stop_run_tests(tc, outcome) ==
    LET r == stop_loop(tc, outcome, 1)
    IN  [success |-> Len(r.failures) = 0, output |-> r.failures,
         launched |-> r.launched]

\* ------------------------------------------------- smart-stop.py, git part
Files == {"app.py", "notes.md"}

\* os.path.splitext(filename)[1]
Ext(filename) ==
    CASE filename = "app.py" -> ".py"
      [] filename = "notes.md" -> ".md"
      [] OTHER -> ""

DefaultCodeExtensions == {".py", ".ts", ".tsx", ".js", ".jsx"}

\* set(config.get("codeExtensions", [...defaults...]))
CodeExtensionsOf(c) ==
    IF c.kind = "valid" /\ c.codeExtensions = "docs" THEN {".md"}
    ELSE DefaultCodeExtensions

\* one "git diff --name-only" call: it lists files, or exits non-zero with
\* nothing on stdout, or subprocess.run raises (git missing, bad cwd)
GitResults ==
    {[kind |-> "ok", files |-> <<>>], [kind |-> "nonzero", files |-> <<>>],
     [kind |-> "raise", files |-> <<>>]}
    \cup {[kind |-> "ok", files |-> <<f>>] : f \in Files}

RECURSIVE KeepCode(_, _)
KeepCode(files, exts) ==
    IF files = <<>> THEN <<>>
    ELSE (IF Ext(Head(files)) \in exts THEN <<Head(files)>> ELSE <<>>)
         \o KeepCode(Tail(files), exts)

\* get_code_changes that reports every changed file as a code file
get_code_changes_any_file(c, unstaged, staged) ==
    IF unstaged.kind = "raise" \/ staged.kind = "raise" THEN <<>>
    ELSE unstaged.files \o staged.files

\* get_code_changes after its get_config() call: modified + staged, kept
\* when the extension is configured; [] when either call raises
get_code_changes(c, unstaged, staged) ==
    IF unstaged.kind = "raise" \/ staged.kind = "raise" THEN <<>>
    ELSE KeepCode(unstaged.files \o staged.files, CodeExtensionsOf(c))

\* ------------------------------------------------------ classify-prompt.py
\* A string is held the way s.split('\n') and then split(' ') see it: a
\* text is a non-empty sequence of lines, a line a non-empty sequence of
\* tokens, "" being the token between two adjacent spaces (and the only
\* token of an empty line).  Joining strings with ' ' is concatenating
\* their token sequences.  Inputs are lower case, so lower() and
\* re.IGNORECASE change nothing on them.
Vocabulary == {"1.", "-", "fix", "bug", "explain", "and", "then"}

EmptyLine == <<"">>
EmptyText == <<EmptyLine>>

\* characters of a token
WordLen(w) ==
    CASE w = "" -> 0
      [] w = "1" -> 1
      [] w = "-" -> 1
      [] w = "1." -> 2
      [] w = "fix" -> 3
      [] w = "bug" -> 3
      [] w = "and" -> 3
      [] w = "then" -> 4
      [] w = "explain" -> 7

\* str.lstrip() / str.rstrip() / str.strip(): spaces and newlines go
RECURSIVE StripL(_)
StripL(text) ==
    IF text[1][1] # "" THEN text
    ELSE IF Len(text[1]) > 1 THEN StripL(<<Tail(text[1])>> \o Tail(text))
    ELSE IF Len(text) > 1 THEN StripL(Tail(text))
    ELSE text

RECURSIVE StripR(_)
StripR(text) ==
    IF Last(Last(text)) # "" THEN text
    ELSE IF Len(Last(text)) > 1 THEN StripR(Front(text) \o <<Front(Last(text))>>)
    ELSE IF Len(text) > 1 THEN StripR(Front(text))
    ELSE text

Strip(text) == StripR(StripL(text))

StripLine(line) == Strip(<<line>>)[1]

\* the tokens left when a greedy \s+ has eaten the spaces in front
RECURSIVE DropSpaces(_)
DropSpaces(tokens) ==
    IF tokens = <<>> THEN <<>>
    ELSE IF Head(tokens) = "" THEN DropSpaces(Tail(tokens))
    ELSE tokens

\* EXPLICIT_DELIMITERS, in list order, as far as the vocabulary can match
\* them: ^\s*\d+\.\s+ (the token "1.") and ^\s*-\s+ (the token "-"); each
\* needs a space after the delimiter
EXPLICIT_DELIMITERS == <<"1.", "-">>

MatchesDelimiter(d, line) == line[1] = d /\ Len(line) >= 2

\* re.sub(p, '', cleaned, count=1): the delimiter and the spaces after it
SubDelimiter(d, line) ==
    IF MatchesDelimiter(d, line)
    THEN LET r == DropSpaces(Tail(line)) IN IF r = <<>> THEN EmptyLine ELSE r
    ELSE line

RECURSIVE RemoveDelimiters(_, _)
RemoveDelimiters(line, k) ==
    IF k > Len(EXPLICIT_DELIMITERS) THEN line
    ELSE RemoveDelimiters(SubDelimiter(EXPLICIT_DELIMITERS[k], line), k + 1)

is_delimiter_line(line) ==
    \E k \in 1..Len(EXPLICIT_DELIMITERS) :
        MatchesDelimiter(EXPLICIT_DELIMITERS[k], line)

\* the first loop of split_requests from line i on; current = <<>> is the
\* empty list current_request
RECURSIVE ExplicitScan(_, _, _, _, _)
\* the body of the loop for one line
ScanLine(lines, i, reqs, current, has, line_stripped) ==
    IF line_stripped = EmptyLine
    THEN ExplicitScan(lines, i + 1, reqs, current, has)
    ELSE IF is_delimiter_line(line_stripped)
    THEN ExplicitScan(lines, i + 1,
             IF current # <<>> THEN Append(reqs, current) ELSE reqs,
             StripLine(RemoveDelimiters(line_stripped, 1)), TRUE)
    ELSE ExplicitScan(lines, i + 1, reqs, current \o line_stripped, has)

ExplicitScan(lines, i, reqs, current, has) ==
    IF i > Len(lines)
    THEN [requests |-> IF current # <<>> THEN Append(reqs, current) ELSE reqs,
          has_delimiters |-> has]
    ELSE ScanLine(lines, i, reqs, current, has, StripLine(lines[i]))

\* ' '.join(lines)
RECURSIVE JoinLines(_)
JoinLines(lines) ==
    IF lines = <<>> THEN <<>> ELSE Head(lines) \o JoinLines(Tail(lines))

\* IMPLICIT_SEPARATORS as far as the vocabulary can match them:
\*   "dot"  \.\s+(?:then|also|next|after that|finally|lastly)\s+
\*   "and"  \s+(?:and also|and then|, then|; also)\s+
IMPLICIT_SEPARATORS == <<"dot", "and">>

DotWords == {"then", "also", "next", "finally", "lastly"}
AndPairs == {<<"and", "also">>, <<"and", "then">>, <<",", "then">>,
             <<";", "also">>}

EndsWithDot(w) == w \in {"1."}
DropDot(w) == IF w = "1." THEN "1" ELSE w

\* index of the first non-empty token after position i, 0 when none
RECURSIVE NextWord(_, _)
NextWord(tokens, i) ==
    IF i >= Len(tokens) THEN 0
    ELSE IF tokens[i + 1] # "" THEN i + 1
    ELSE NextWord(tokens, i + 1)

\* where the separator matches with its first word character at token i,
\* j being the first word after token i:
\* [hit, before, after], after being what follows the trailing \s+
SeparatorMatch(sep, tokens, i, j) ==
    IF sep = "dot"
    THEN IF EndsWithDot(tokens[i]) /\ j # 0 /\ j < Len(tokens)
            /\ tokens[j] \in DotWords
         THEN [hit |-> TRUE,
               before |-> SubSeq(tokens, 1, i - 1) \o <<DropDot(tokens[i])>>,
               after |-> DropSpaces(SubSeq(tokens, j + 1, Len(tokens)))]
         ELSE [hit |-> FALSE, before |-> <<>>, after |-> <<>>]
    ELSE IF i >= 2 /\ i + 1 < Len(tokens)
            /\ <<tokens[i], tokens[i + 1]>> \in AndPairs
         THEN [hit |-> TRUE,
               before |-> SubSeq(tokens, 1, i - 1),
               after |-> DropSpaces(SubSeq(tokens, i + 2, Len(tokens)))]
         ELSE [hit |-> FALSE, before |-> <<>>, after |-> <<>>]

SeparatorAt(sep, tokens, i) ==
    SeparatorMatch(sep, tokens, i, NextWord(tokens, i))

\* re.split(sep_pattern, full_text): leftmost matches, none overlapping
RECURSIVE ReSplit(_, _, _)
SplitAt(sep, tokens, i, m) ==
    IF m.hit
    THEN <<m.before>>
         \o ReSplit(sep, IF m.after = <<>> THEN EmptyLine ELSE m.after, 1)
    ELSE ReSplit(sep, tokens, i + 1)

ReSplit(sep, tokens, i) ==
    IF i > Len(tokens) THEN <<tokens>>
    ELSE SplitAt(sep, tokens, i, SeparatorAt(sep, tokens, i))

\* [p.strip() for p in parts if p.strip()]
RECURSIVE StripParts(_)
StripParts(parts) ==
    IF parts = <<>> THEN <<>>
    ELSE (IF StripLine(Head(parts)) # EmptyLine
          THEN <<StripLine(Head(parts))>> ELSE <<>>)
         \o StripParts(Tail(parts))

\* single-line strings as texts
AsTexts(strings) == [n \in 1..Len(strings) |-> <<strings[n]>>]

\* the loop over IMPLICIT_SEPARATORS from the k-th pattern on, and the
\* final return [prompt.strip()]
RECURSIVE ImplicitScan(_, _, _)
TryParts(text, full_text, k, parts) ==
    IF Len(parts) > 1
    THEN [requests |-> AsTexts(StripParts(parts)), via |-> "implicit"]
    ELSE ImplicitScan(text, full_text, k + 1)

ImplicitScan(text, full_text, k) ==
    IF k > Len(IMPLICIT_SEPARATORS)
    THEN [requests |-> <<text>>, via |-> "whole"]
    ELSE TryParts(text, full_text, k,
                  ReSplit(IMPLICIT_SEPARATORS[k], full_text, 1))

\* [r for r in requests if r.strip()]
RECURSIVE NonBlank(_)
NonBlank(strings) ==
    IF strings = <<>> THEN <<>>
    ELSE (IF StripLine(Head(strings)) # EmptyLine THEN <<Head(strings)>> ELSE <<>>)
         \o NonBlank(Tail(strings))

\* split_requests after its first loop; via names the return statement
\* taken ("explicit": line 111, "implicit": line 118, "whole": line 121)
SplitReturn(lines, e) ==
    IF e.has_delimiters /\ Len(e.requests) > 1
    THEN [requests |-> AsTexts(NonBlank(e.requests)), via |-> "explicit"]
    ELSE ImplicitScan(lines, JoinLines(lines), 1)

\* lines = prompt.strip().split('\n') and the first loop
SplitLines(lines) ==
    SplitReturn(lines, ExplicitScan(lines, 1, <<>>, <<>>, FALSE))

\* split_requests: [requests, via]
split_requests(text) == SplitLines(Strip(text))

\* characters strictly between token i and token j of a line (i < j)
RECURSIVE Gap(_, _, _)
Gap(line, i, j) ==
    IF j <= i + 1 THEN 1 ELSE WordLen(line[j - 1]) + 1 + Gap(line, i, j - 1)

\* the widths of .{0,30} and .{0,50} in CODING_PATTERNS
VerbTargetGap == 30
IssueFixGap == 50

\* \b(A)\b.{0,width}\b(B)\b: '.' does not match a newline, so both words
\* are on one line
Within(text, a, b, width) ==
    \E l \in 1..Len(text) : \E i, j \in 1..Len(text[l]) :
        /\ i < j
        /\ text[l][i] \in a
        /\ text[l][j] \in b
        /\ Gap(text[l], i, j) <= width

\* the alternatives of each pattern that the vocabulary contains
Verbs == {"fix"}
Targets == {"bug"}
StandaloneVerbs == {"fix"}
Issues == {"bug"}
Fixes == {"fix"}
QuickWords == {"explain"}

\* CODING_PATTERNS, in list order, as far as the vocabulary can match them
CODING_PATTERNS == <<"verb_target", "standalone_verb", "issue_fix", "fix_issue">>

\* QUICK_PATTERNS as far as the vocabulary can match them
QUICK_PATTERNS == <<"explain">>

\* re.search(pattern, prompt_lower)
Search(pattern, text) ==
    CASE pattern = "verb_target" -> Within(text, Verbs, Targets, VerbTargetGap)
      [] pattern = "standalone_verb" -> text[1][1] \in StandaloneVerbs
      [] pattern = "issue_fix" -> Within(text, Issues, Fixes, IssueFixGap)
      [] pattern = "fix_issue" -> Within(text, Fixes, Issues, IssueFixGap)
      [] pattern = "explain" ->
            \E l \in 1..Len(text) : \E i \in 1..Len(text[l]) :
                text[l][i] \in QuickWords

MatchesCoding(text) ==
    \E k \in 1..Len(CODING_PATTERNS) : Search(CODING_PATTERNS[k], Strip(text))

MatchesQuick(text) ==
    \E k \in 1..Len(QUICK_PATTERNS) : Search(QUICK_PATTERNS[k], Strip(text))

\* classify_single with the two loops in the other order
classify_single_quick_first(text) ==
    IF MatchesQuick(text) THEN "QUICK_QUESTION"
    ELSE IF MatchesCoding(text) THEN "CODING_TASK"
    ELSE "QUICK_QUESTION"

\* classify_single: the coding loop, then the quick loop, then the default
classify_single(text) ==
    IF MatchesCoding(text) THEN "CODING_TASK"
    ELSE IF MatchesQuick(text) THEN "QUICK_QUESTION"
    ELSE "QUICK_QUESTION"

\* [(req, classify_single(req)) for req in requests]
ClassifyEach(reqs) ==
    [n \in 1..Len(reqs) |-> <<reqs[n], classify_single(reqs[n])>>]

\* the overall type taken from the first request only
OverallOf_first_request(cl) ==
    [overall |-> cl[1][2], classified |-> cl]

\* overall type: CODING_TASK if any request is coding, else QUICK_QUESTION
OverallOf(cl) ==
    [overall |-> IF \E n \in 1..Len(cl) : cl[n][2] = "CODING_TASK"
                 THEN "CODING_TASK" ELSE "QUICK_QUESTION",
     classified |-> cl]

\* the single-request return of classify_prompt
SingleOf(req, task_type) ==
    [overall |-> task_type, classified |-> <<<<req, task_type>>>>]

\* classify_prompt after split_requests
ClassifyRequests(reqs) ==
    IF Len(reqs) = 1 THEN SingleOf(reqs[1], classify_single(reqs[1]))
    ELSE OverallOf(ClassifyEach(reqs))

\* classify_prompt: (overall_type, [(request_text, type), ...])
classify_prompt(text) == ClassifyRequests(split_requests(text).requests)

\* --------------------------------------------------------- the hook mains
\* what a hook process leaves behind
Exit(out, code, fs, raised, ran) ==
    [stdout |-> out, exitCode |-> code, fs |-> fs, logRaised |-> raised,
     launched |-> ran]

\* an exception nobody catches: traceback on stderr, exit status 1
Uncaught(fs, raised, ran) == Exit(<<>>, 1, fs, raised, ran)

Block(output) == [kind |-> "decision", decision |-> "block", reason |-> output]

\* test-gate.py main
test_gate_main(c, fs, now, outcome) ==
    IF ConfigRaises(c) THEN Uncaught(fs, FALSE, <<>>)
    ELSE LET r == gate_run_tests(TestCommandsOf(c), outcome)
             lg == log_subagent_stop(c, fs, now, r.all_passed, r.backend_passed,
                       r.frontend_passed, ~r.all_passed,
                       IF ~r.all_passed THEN r.output ELSE <<>>)
         IN  IF lg.raised THEN Uncaught(lg.fs, TRUE, r.launched)
             ELSE IF ~r.all_passed
             THEN Exit(<<Block(r.output)>>, 0, lg.fs, FALSE, r.launched)
             ELSE Exit(<<>>, 0, lg.fs, FALSE, r.launched)

\* smart-stop.py main
smart_stop_main(c, fs, now, unstaged, staged, outcome) ==
    IF ConfigRaises(c) THEN Uncaught(fs, FALSE, <<>>)
    ELSE LET changed_files == get_code_changes(c, unstaged, staged)
         IN  IF changed_files = <<>>
             THEN LET lg == log_session_stop(c, fs, now, FALSE, FALSE, "None", <<>>)
                  IN  IF lg.raised THEN Uncaught(lg.fs, TRUE, <<>>)
                      ELSE Exit(<<>>, 0, lg.fs, FALSE, <<>>)
             ELSE LET r == stop_run_tests(TestCommandsOf(c), outcome)
                      lg == log_session_stop(c, fs, now, TRUE, TRUE,
                                             Py(r.success), changed_files)
                  IN  IF lg.raised THEN Uncaught(lg.fs, TRUE, r.launched)
                      ELSE IF ~r.success
                      THEN Exit(<<Block(r.output)>>, 0, lg.fs, FALSE, r.launched)
                      ELSE Exit(<<>>, 0, lg.fs, FALSE, r.launched)

\* characters of a text: its tokens, the spaces and the newlines between
RECURSIVE LineLen(_)
LineLen(line) ==
    IF Len(line) = 1 THEN WordLen(line[1])
    ELSE WordLen(Head(line)) + 1 + LineLen(Tail(line))

RECURSIVE TextLen(_)
TextLen(text) ==
    IF Len(text) = 1 THEN LineLen(text[1])
    ELSE LineLen(Head(text)) + 1 + TextLen(Tail(text))

PreviewLen == 100

\* prompt[:100]: the whole prompt when it is that short (the prompts drawn
\* here are), otherwise the lines that fit whole
RECURSIVE Preview(_)
Preview(text) ==
    IF TextLen(text) <= PreviewLen \/ Len(text) = 1 THEN text
    ELSE Preview(Front(text))

Context(tag, body) == [kind |-> "context", tag |-> tag, body |-> body]

CodingCount(cl) == Cardinality({n \in 1..Len(cl) : cl[n][2] = "CODING_TASK"})

\* what json.load(sys.stdin) finds: no JSON, JSON that is no object, an
\* object whose "prompt" is no string, or an object with a prompt ("" when
\* the key is missing)
StdinKinds == {"invalid_json", "not_object", "non_string", "object"}

\* classify-prompt.py main from "Build context output" on
PrintContext(r, fs) ==
    IF Len(r.classified) = 1
    THEN Exit(<<Context("TASK_TYPE", r.overall)>>, 0, fs, FALSE, <<>>)
    ELSE Exit(<<Context("MULTI_REQUEST", r.classified)>>, 0, fs, FALSE, <<>>)

\* the outer except Exception of classify-prompt.py main: print, sys.exit(0)
CatchAll(error, fs, raised) ==
    Exit(<<Context("CLASSIFICATION_ERROR", error)>>, 0, fs, raised, <<>>)

\* the logging call of classify-prompt.py main
LogClassification(c, fs, now, text, r, coding) ==
    log_prompt_classification(c, fs, now, Preview(text), r.overall,
        Len(r.classified) > 1, Len(r.classified), coding,
        Len(r.classified) - coding)

\* classify-prompt.py main without the outer try/except
Continue_uncaught(r, lg) ==
    IF lg.raised THEN Uncaught(lg.fs, TRUE, <<>>) ELSE PrintContext(r, lg.fs)

\* classify-prompt.py main after the logging call returned or raised
Continue(r, lg) ==
    IF lg.raised THEN CatchAll("JSONDecodeError", lg.fs, TRUE)
    ELSE PrintContext(r, lg.fs)

\* classify-prompt.py main after classify_prompt
Classified(c, fs, now, text, r) ==
    Continue(r, LogClassification(c, fs, now, text, r, CodingCount(r.classified)))

\* classify-prompt.py main: sys.exit(0) on every path
classify_main(c, fs, now, in) ==
    CASE in.kind = "invalid_json" ->
            Exit(<<Context("CLASSIFICATION_ERROR", "JSON parse failed")>>, 0,
                 fs, FALSE, <<>>)
      [] in.kind \in {"not_object", "non_string"} ->
            CatchAll("AttributeError", fs, FALSE)
      [] in.kind = "object" ->
            IF Strip(in.prompt) = EmptyText
            THEN Exit(<<Context("CLASSIFICATION_SKIPPED", "Empty prompt")>>, 0,
                      fs, FALSE, <<>>)
            ELSE Classified(c, fs, now, in.prompt, classify_prompt(in.prompt))

\* log-prompt.py main: prints nothing, sys.exit(0) on every path
log_prompt_main(fs, now, in) ==
    IF in.kind = "object" /\ Strip(in.prompt) # EmptyText
    THEN Exit(<<>>, 0, log_prompt(fs, now, Preview(in.prompt)), FALSE, <<>>)
    ELSE Exit(<<>>, 0, fs, FALSE, <<>>)

\* ------------------------------------------------------------ environment
SamplePrompts ==
    {<<<<"fix", "bug">>>>,
     <<<<"explain">>>>,
     <<<<"-", "fix", "bug">>, <<"-", "explain">>>>}

\* an object without "prompt" reads as "", a blank prompt is "\n"
StdinInputs ==
    {[kind |-> k, prompt |-> EmptyText] : k \in StdinKinds}
    \cup {[kind |-> "object", prompt |-> <<EmptyLine, EmptyLine>>]}
    \cup {[kind |-> "object", prompt |-> p] : p \in SamplePrompts}

\* a line an earlier process left in the log
OldLine == LogEntry(0, "prompt_submitted", "UserPromptSubmit",
                    [prompt_preview |-> <<<<"explain">>>>], TRUE)

NoInput == [kind |-> "none"]

InitText ==
    /\ prompt = EmptyText
    /\ phase = "typing"
    /\ requests = [requests |-> <<>>, via |-> "none"]
    /\ overall = "none"
    /\ classified = <<>>

InitRun ==
    /\ clock = 0
    /\ hook = "none"
    /\ stdin = NoInput
    /\ launched = <<>>
    /\ stdout = <<>>
    /\ exitCode = 0
    /\ logRaised = FALSE

\* any configuration, any state of the log directory and file
Init ==
    /\ config \in Configs
    /\ writable \in BOOLEAN
    /\ dirExists \in BOOLEAN
    /\ fileExists \in BOOLEAN
    /\ fileExists => dirExists
    /\ log \in {<<>>, <<OldLine>>}
    /\ log # <<>> => fileExists
    /\ InitRun
    /\ InitText

\* a hook process runs to its exit: its outputs and the file system it
\* leaves
Finish(name, in, r) ==
    /\ hook = "none"
    /\ clock' = clock + 1
    /\ hook' = name
    /\ stdin' = in
    /\ launched' = r.launched
    /\ stdout' = r.stdout
    /\ exitCode' = r.exitCode
    /\ logRaised' = r.logRaised
    /\ writable' = r.fs.writable
    /\ dirExists' = r.fs.dirExists
    /\ fileExists' = r.fs.fileExists
    /\ log' = r.fs.log
    /\ UNCHANGED <<config, textVars>>

TestGateMain(outcome) ==
    Finish("test-gate", NoInput,
           test_gate_main(config, FileSystem, clock + 1, outcome))

SmartStopMain(unstaged, staged, outcome) ==
    Finish("smart-stop", [kind |-> "git", unstaged |-> unstaged, staged |-> staged],
           smart_stop_main(config, FileSystem, clock + 1, unstaged, staged, outcome))

ClassifyPromptMain(in) ==
    Finish("classify-prompt", in, classify_main(config, FileSystem, clock + 1, in))

LogPromptMain(in) ==
    Finish("log-prompt", in, log_prompt_main(FileSystem, clock + 1, in))

AllOutcomes == [Names -> Outcomes]

\* one hook process started in the environment Init chose
Next ==
    \/ \E o \in AllOutcomes : TestGateMain(o)
    \/ \E u \in GitResults, s \in GitResults, o \in AllOutcomes :
           SmartStopMain(u, s, o)
    \/ \E in \in StdinInputs : ClassifyPromptMain(in)
    \/ \E in \in StdinInputs : LogPromptMain(in)

Spec == Init /\ [][Next]_vars

\* ------------------------------------------------- a session of hook events
\* the host waits for its next event: the exited process and its output
\* are gone, the files stay
NextEvent ==
    /\ hook # "none"
    /\ clock < MaxEvents
    /\ hook' = "none"
    /\ stdin' = NoInput
    /\ launched' = <<>>
    /\ stdout' = <<>>
    /\ exitCode' = 0
    /\ logRaised' = FALSE
    /\ UNCHANGED <<config, writable, dirExists, fileExists, log, clock, textVars>>

BackendOnly == [n \in Names |-> IF n = "backend" THEN "on" ELSE "absent"]

SessionConfigs ==
    {c \in Configs : /\ c.testCommands \in {NoCommands, BackendOnly}
                     /\ c.kind = "valid" => c.testCommands = BackendOnly
                     /\ c.codeExtensions = "unset"}

SessionOutcomes ==
    {o \in AllOutcomes : /\ o["backend"] \in {"pass", "nonzero"}
                         /\ o["frontend"] = "pass" /\ o["e2e"] = "pass"}

SessionGit == {g \in GitResults : g.kind = "ok" /\ g.files # <<"notes.md">>}

SessionStdin ==
    {in \in StdinInputs : in.kind \in {"invalid_json", "object"}
                          /\ in.prompt # <<EmptyLine, EmptyLine>>}

InitSession ==
    /\ Init
    /\ config \in SessionConfigs

NextSession ==
    \/ \E o \in SessionOutcomes : TestGateMain(o)
    \/ \E u \in SessionGit, o \in SessionOutcomes :
           SmartStopMain(u, [kind |-> "ok", files |-> <<>>], o)
    \/ \E in \in SessionStdin : ClassifyPromptMain(in)
    \/ \E in \in SessionStdin : LogPromptMain(in)
    \/ NextEvent

SpecSession == InitSession /\ [][NextSession]_vars

\* ------------------------------------------ the classifier as a function
MaxWords == 4       \* words of a typed prompt
MaxLines == 2       \* lines of a typed prompt

RECURSIVE WordCount(_)
WordCount(text) ==
    IF text = <<>> THEN 0
    ELSE Cardinality({i \in 1..Len(Head(text)) : Head(text)[i] # ""})
         + WordCount(Tail(text))

TypeWord(w) ==
    /\ phase = "typing"
    /\ WordCount(prompt) < MaxWords
    /\ prompt' = [prompt EXCEPT ![Len(prompt)] =
                      IF @ = EmptyLine THEN <<w>> ELSE Append(@, w)]
    /\ UNCHANGED <<phase, requests, overall, classified, hookVars>>

TypeNewline ==
    /\ phase = "typing"
    /\ Len(prompt) < MaxLines
    /\ prompt' = Append(prompt, EmptyLine)
    /\ UNCHANGED <<phase, requests, overall, classified, hookVars>>

\* classify_prompt(prompt), with the split it made
Classify ==
    /\ phase = "typing"
    /\ phase' = "done"
    /\ requests' = split_requests(prompt)
    /\ overall' = classify_prompt(prompt).overall
    /\ classified' = classify_prompt(prompt).classified
    /\ UNCHANGED <<prompt, hookVars>>

InitClassify ==
    /\ config = [kind |-> "absent", logging |-> "unset",
                 testCommands |-> NoCommands, codeExtensions |-> "unset"]
    /\ writable = TRUE
    /\ dirExists = FALSE
    /\ fileExists = FALSE
    /\ log = <<>>
    /\ InitRun
    /\ InitText

NextClassify ==
    \/ \E w \in Vocabulary : TypeWord(w)
    \/ TypeNewline
    \/ Classify

SpecClassify == InitClassify /\ [][NextClassify]_vars

\* ------------------------------------------------------ analyze_activity.py
MaxEntries == 3

\* key in dict
Has(d, k) == k \in DOMAIN d

\* {} : the dict without keys
NoData == <<>>

\* truth of data.get(k) for a field that holds true / false
DataFlag(data, k) == IF Has(data, k) THEN data[k] ELSE FALSE

\* data.get(k) is False
IsFalse(data, k) == Has(data, k) /\ data[k] = FALSE

\* truth of data.get(k) for a field that holds True / False / None
PyTruthy(data, k) == Has(data, k) /\ data[k] = "True"

\* timestamp.strftime("%Y-%m-%d") and timestamp.hour, the clock ticking
\* twice a day
DayOf(ts) == ts \div 2
HourOf(ts) == ts % 2

Inc(b) == IF b THEN 1 ELSE 0

\* the metrics dict before the loop
InitialMetrics(entries) ==
    [kind |-> "metrics",
     total_events |-> Len(entries),
     date_range |-> [start |-> <<>>, end |-> <<>>],
     prompts |-> [total |-> 0, coding_tasks |-> 0, quick_questions |-> 0,
                  multi_request |-> 0],
     subagent_stops |-> [total |-> 0, passed |-> 0, blocked |-> 0,
                         backend_failures |-> 0, frontend_failures |-> 0],
     session_stops |-> [total |-> 0, with_code_changes |-> 0,
                        without_code_changes |-> 0, tests_run |-> 0,
                        tests_passed |-> 0, tests_failed |-> 0],
     by_day |-> <<>>,
     by_hour |-> <<>>]

\* metrics["by_day"][day_key][field] += 1 on the defaultdict
BumpDay(by_day, day_key, field) ==
    LET zero == [prompts |-> 0, subagent_stops |-> 0, session_stops |-> 0]
        old == IF day_key \in DOMAIN by_day THEN by_day[day_key] ELSE zero
    IN  [d \in DOMAIN by_day \cup {day_key} |->
            IF d = day_key THEN [old EXCEPT ![field] = @ + 1] ELSE by_day[d]]

\* metrics["by_hour"][hour_key] += 1 on the defaultdict
BumpHour(by_hour, hour_key) ==
    LET old == IF hour_key \in DOMAIN by_hour THEN by_hour[hour_key] ELSE 0
    IN  [h \in DOMAIN by_hour \cup {hour_key} |->
            IF h = hour_key THEN old + 1 ELSE by_hour[h]]

\* the two date_range updates; start and end are None (<<>>) or <<ts>>
UpdateRange(r, ts) ==
    [start |-> IF r.start = <<>> \/ ts < r.start[1] THEN <<ts>> ELSE r.start,
     end |-> IF r.end = <<>> \/ ts > r.end[1] THEN <<ts>> ELSE r.end]

\* the prompt_classification branch counting a quick question only when
\* the classification says QUICK_QUESTION
count_prompt_quick_only(m, data, day_key, hour_key) ==
    LET classification == IF Has(data, "classification")
                          THEN data["classification"] ELSE ""
    IN  [m EXCEPT
           !.prompts = [total |-> @.total + 1,
                        coding_tasks |-> @.coding_tasks
                            + Inc(classification = "CODING_TASK"),
                        quick_questions |-> @.quick_questions
                            + Inc(classification = "QUICK_QUESTION"),
                        multi_request |-> @.multi_request
                            + Inc(DataFlag(data, "is_multi_request"))],
           !.by_day = BumpDay(@, day_key, "prompts"),
           !.by_hour = BumpHour(@, hour_key)]

\* the prompt_classification branch
count_prompt(m, data, day_key, hour_key) ==
    LET classification == IF Has(data, "classification")
                          THEN data["classification"] ELSE ""
    IN  [m EXCEPT
           !.prompts = [total |-> @.total + 1,
                        coding_tasks |-> @.coding_tasks
                            + Inc(classification = "CODING_TASK"),
                        quick_questions |-> @.quick_questions
                            + Inc(classification # "CODING_TASK"),
                        multi_request |-> @.multi_request
                            + Inc(DataFlag(data, "is_multi_request"))],
           !.by_day = BumpDay(@, day_key, "prompts"),
           !.by_hour = BumpHour(@, hour_key)]

\* the subagent_test_gate branch
count_subagent_stop(m, data, day_key) ==
    [m EXCEPT
       !.subagent_stops =
           [total |-> @.total + 1,
            passed |-> @.passed + Inc(DataFlag(data, "tests_passed")),
            blocked |-> @.blocked + Inc(DataFlag(data, "blocked")),
            backend_failures |-> @.backend_failures
                + Inc(IsFalse(data, "backend_passed")),
            frontend_failures |-> @.frontend_failures
                + Inc(IsFalse(data, "frontend_passed"))],
       !.by_day = BumpDay(@, day_key, "subagent_stops")]

\* the session_stop branch
count_session_stop(m, data, day_key) ==
    LET code_modified == DataFlag(data, "code_modified")
        tests_run == DataFlag(data, "tests_run")
        tests_passed == PyTruthy(data, "tests_passed")
    IN  [m EXCEPT
           !.session_stops =
               [total |-> @.total + 1,
                with_code_changes |-> @.with_code_changes + Inc(code_modified),
                without_code_changes |-> @.without_code_changes
                    + Inc(~code_modified),
                tests_run |-> @.tests_run + Inc(tests_run),
                tests_passed |-> @.tests_passed
                    + Inc(tests_run /\ tests_passed),
                tests_failed |-> @.tests_failed
                    + Inc(tests_run /\ ~tests_passed)],
           !.by_day = BumpDay(@, day_key, "session_stops")]

\* the branches on event_type, after the date_range update
Dispatch(m, event_type, data, ts) ==
    CASE event_type = "prompt_classification" ->
            count_prompt(m, data, DayOf(ts), HourOf(ts))
      [] event_type = "subagent_test_gate" ->
            count_subagent_stop(m, data, DayOf(ts))
      [] event_type = "session_stop" ->
            count_session_stop(m, data, DayOf(ts))
      [] OTHER -> m

\* one pass of the loop body over an entry that has a timestamp
count_entry(m, entry) ==
    Dispatch([m EXCEPT !.date_range = UpdateRange(@, entry["timestamp"])],
             IF Has(entry, "event_type") THEN entry["event_type"] ELSE "",
             IF Has(entry, "data") THEN entry["data"] ELSE NoData,
             entry["timestamp"])

\* for entry in entries: entry["timestamp"] raises KeyError when the key
\* is missing, and the exception leaves analyze_entries
RECURSIVE analyze_loop(_, _, _)
analyze_loop(entries, i, m) ==
    IF i > Len(entries) THEN m
    ELSE IF ~Has(entries[i], "timestamp")
    THEN [kind |-> "raised", error |-> "KeyError"]
    ELSE analyze_loop(entries, i + 1, count_entry(m, entries[i]))

analyze_entries(entries) == analyze_loop(entries, 1, InitialMetrics(entries))

\* timestamps of the lines: two on one day, in different hours
Stamps == {2, 3}

\* data of the lines the hooks write, and of lines with keys missing
PromptData ==
    {[classification |-> "CODING_TASK", is_multi_request |-> FALSE],
     [classification |-> "CODING_TASK", is_multi_request |-> TRUE],
     [classification |-> "QUICK_QUESTION", is_multi_request |-> FALSE],
     NoData}

GateData ==
    {[tests_passed |-> TRUE, backend_passed |-> TRUE,
      frontend_passed |-> TRUE, blocked |-> FALSE],
     [tests_passed |-> FALSE, backend_passed |-> FALSE,
      frontend_passed |-> TRUE, blocked |-> TRUE],
     [tests_passed |-> FALSE, backend_passed |-> TRUE,
      frontend_passed |-> FALSE, blocked |-> TRUE]}

SessionData ==
    {[code_modified |-> FALSE, tests_run |-> FALSE, tests_passed |-> "None"],
     [code_modified |-> TRUE, tests_run |-> TRUE, tests_passed |-> "True"],
     [code_modified |-> TRUE, tests_run |-> TRUE, tests_passed |-> "False"],
     [code_modified |-> FALSE, tests_run |-> FALSE, tests_passed |-> "False"]}

\* a line of another writer: no "timestamp" key
NoTimestamp == [event_type |-> "session_stop", hook |-> "Stop",
                success |-> TRUE, data |-> NoData]

\* a line with a timestamp and nothing else
BareLine == [timestamp |-> 1]

\* what load_activity_log can return without --days: any JSON object of
\* the file
LogLines ==
    {LogEntry(t, "prompt_classification", "UserPromptSubmit", d, TRUE) :
        t \in Stamps, d \in PromptData}
    \cup {LogEntry(t, "subagent_test_gate", "SubagentStop", d, d["tests_passed"]) :
        t \in Stamps, d \in GateData}
    \cup {LogEntry(t, "session_stop", "Stop", d, d["tests_passed"] # "False") :
        t \in Stamps, d \in SessionData}
    \cup {LogEntry(t, "prompt_submitted", "UserPromptSubmit", NoData, TRUE) :
        t \in Stamps}
    \cup {NoTimestamp, BareLine}

\* a line reaches the list of entries
LoadEntry(e) ==
    /\ hook = "none"
    /\ Len(log) < MaxEntries
    /\ log' = Append(log, e)
    /\ UNCHANGED <<config, writable, dirExists, fileExists, clock, hook,
                   stdin, launched, stdout, exitCode, logRaised, textVars>>

\* metrics = analyze_entries(entries); print(json.dumps(metrics)); an
\* exception ends the process with status 1 and nothing printed
AnalyzeEntries ==
    /\ hook = "none"
    /\ hook' = "analyze"
    /\ stdout' = IF analyze_entries(log).kind = "metrics"
                 THEN <<analyze_entries(log)>> ELSE <<>>
    /\ exitCode' = IF analyze_entries(log).kind = "metrics" THEN 0 ELSE 1
    /\ UNCHANGED <<config, writable, dirExists, fileExists, log, clock,
                   stdin, launched, logRaised, textVars>>

InitAnalyze ==
    /\ config = CHOOSE c \in Configs : c.kind = "absent"
    /\ writable = TRUE
    /\ dirExists = TRUE
    /\ fileExists = TRUE
    /\ log = <<>>
    /\ InitRun
    /\ InitText

NextAnalyze ==
    \/ \E e \in LogLines : LoadEntry(e)
    \/ AnalyzeEntries

SpecAnalyze == InitAnalyze /\ [][NextAnalyze]_vars

\* ------------------------------------------------ the two gates side by side
\* what a gate prints for the result of its run_tests: main prints the
\* block object when the tests did not all pass
Decision(passed, output) == IF passed THEN <<>> ELSE <<Block(output)>>

\* test-gate.py: run_tests on the configured commands, each command ending
\* as the outcome says, and the decision main takes from all_passed
GateRunTests(outcome) ==
    /\ hook = "none"
    /\ hook' = "test-gate"
    /\ stdin' = [kind |-> "outcomes", outcome |-> outcome]
    /\ IF ConfigRaises(config)
       THEN launched' = <<>> /\ stdout' = <<>> /\ exitCode' = 1
       ELSE /\ launched' = gate_run_tests(TestCommandsOf(config), outcome).launched
            /\ stdout' = Decision(
                   gate_run_tests(TestCommandsOf(config), outcome).all_passed,
                   gate_run_tests(TestCommandsOf(config), outcome).output)
            /\ exitCode' = 0
    /\ UNCHANGED <<config, writable, dirExists, fileExists, log, clock,
                   logRaised, textVars>>

\* smart-stop.py: run_tests on the same configuration, the commands ending
\* as they did for the other gate, and the decision main takes from success
StopRunTests ==
    /\ hook = "test-gate"
    /\ hook' = "smart-stop"
    /\ IF ConfigRaises(config)
       THEN launched' = <<>> /\ stdout' = <<>> /\ exitCode' = 1
       ELSE /\ launched' = stop_run_tests(TestCommandsOf(config), stdin.outcome).launched
            /\ stdout' = Decision(
                   stop_run_tests(TestCommandsOf(config), stdin.outcome).success,
                   stop_run_tests(TestCommandsOf(config), stdin.outcome).output)
            /\ exitCode' = 0
    /\ UNCHANGED <<config, writable, dirExists, fileExists, log, clock,
                   stdin, logRaised, textVars>>

InitGates ==
    /\ config \in Configs
    /\ writable = TRUE
    /\ dirExists = TRUE
    /\ fileExists = FALSE
    /\ log = <<>>
    /\ InitRun
    /\ InitText

NextGates ==
    \/ \E o \in AllOutcomes : GateRunTests(o)
    \/ StopRunTests

SpecGates == InitGates /\ [][NextGates]_vars

\* ------------------------------------------------------------- properties
BlockPrinted ==
    \E i \in 1..Len(stdout) :
        stdout[i].kind = "decision" /\ stdout[i].decision = "block"

\* the command is enabled in testCommands
EnabledInConfig(n) == config.kind = "valid" /\ config.testCommands[n] = "on"

\* the command was run and ended non-zero, timed out or could not start
CommandFailed(n) ==
    \E i \in 1..Len(launched) : launched[i][1] = n /\ Failed(launched[i][2])

SomeEnabledCommandFails == \E n \in Names : EnabledInConfig(n) /\ CommandFailed(n)

GitRaised == stdin.unstaged.kind = "raise" \/ stdin.staged.kind = "raise"
GitFiles == {stdin.unstaged.files[i] : i \in 1..Len(stdin.unstaged.files)}
            \cup {stdin.staged.files[i] : i \in 1..Len(stdin.staged.files)}
CodeFileChanged ==
    ~GitRaised /\ \E f \in GitFiles : Ext(f) \in CodeExtensionsOf(config)

\* C2 as stated: when no staged or unstaged changed file has a configured
\* code extension (or the git query fails), the Stop hook runs no test
\* command, prints no block decision and exits 0.
C2_Original ==
    (hook = "smart-stop" /\ ~CodeFileChanged) =>
        launched = <<>> /\ ~BlockPrinted /\ exitCode = 0

\* C2 amended: in that case the Stop hook runs no test command and prints no
\* block decision; it exits 0 when config.json is missing or parses, and
\* ends with an uncaught exception (exit status 1) when config.json is not
\* valid JSON.
C2_NoCodeChangeNoTests ==
    (hook = "smart-stop" /\ ~CodeFileChanged) =>
        /\ launched = <<>>
        /\ ~BlockPrinted
        /\ exitCode = IF config.kind = "malformed" THEN 1 ELSE 0

C2_Witness ==
    /\ hook = "smart-stop"
    /\ ~CodeFileChanged
    /\ stdin.unstaged.files = <<"notes.md">>
    /\ EnabledInConfig("backend")
    /\ exitCode = 0

\* C3: when a code file was modified, the Stop hook prints a
\* {"decision": "block"} object exactly when an enabled command of
\* testCommands failed; otherwise nothing is printed and the stop is allowed.
C3_StopBlocksIffCommandFails ==
    (hook = "smart-stop" /\ CodeFileChanged) =>
        /\ BlockPrinted <=> SomeEnabledCommandFails
        /\ ~SomeEnabledCommandFails => stdout = <<>>

C3_Witness ==
    /\ hook = "smart-stop"
    /\ CodeFileChanged
    /\ BlockPrinted
    /\ launched = <<<<"backend", "pass">>, <<"e2e", "error">>>>

\* C4: the UserPromptSubmit hooks end with exit status 0 for every stdin
\* content and every outcome of the logging call.
C4_PromptHooksExitZero ==
    hook \in {"classify-prompt", "log-prompt"} => exitCode = 0

C4_Witness ==
    /\ hook = "classify-prompt"
    /\ logRaised
    /\ exitCode = 0

\* C5: log_activity returns normally, without raising to its caller, for
\* every state of config.json (absent, valid, malformed) and of the log
\* file and its directory.
C5_LogActivityNeverRaises == ~logRaised

\* the process that just exited made its logging call
LoggingCalled ==
    CASE hook' \in {"test-gate", "smart-stop"} -> ~ConfigRaises(config)
      [] hook' \in {"classify-prompt", "log-prompt"} ->
            stdin'.kind = "object" /\ Strip(stdin'.prompt) # EmptyText
      [] OTHER -> FALSE

\* log_activity gets past its enabled check (log_prompt has none)
LoggingOn ==
    hook' = "log-prompt" \/ (~ConfigRaises(config) /\ LoggerEnabled(config))

AppendsOneLine ==
    /\ Len(log') = Len(log) + 1
    /\ SubSeq(log', 1, Len(log)) = log
    /\ DOMAIN Last(log') = EntryKeys
    /\ Last(log').timestamp = clock'

C6_Step ==
    /\ log' = log \/ AppendsOneLine
    /\ (hook' # "none" /\ LoggingCalled /\ LoggingOn /\ writable) => AppendsOneLine

C6_InOrder ==
    \A i, j \in 1..Len(log) : i < j => log[i].timestamp < log[j].timestamp

\* C6: the activity log is append-only: a logging call with logging enabled
\* and a writable log appends exactly one line carrying timestamp,
\* event_type, hook, success and data, no step changes an earlier line, and
\* the lines are in the order in which the events occurred.
C6_LogAppendOnly == [][C6_Step]_vars /\ []C6_InOrder

C6_Witness ==
    /\ Len(log) >= 2
    /\ log[Len(log) - 1].event_type = "session_stop"
    /\ log[Len(log)].event_type = "prompt_classification"
    /\ hook = "classify-prompt"

\* C7: with logging.enabled false, the hooks that log through log_activity
\* (classification, SubagentStop, Stop) leave the log file and its directory
\* as they were: nothing is created, nothing is written.
C7_DisabledLoggingTouchesNothing ==
    [][(/\ hook' \in {"classify-prompt", "test-gate", "smart-stop"}
        /\ config.kind = "valid"
        /\ config.logging = "off")
       => UNCHANGED <<writable, dirExists, fileExists, log>>]_vars

C7_Witness ==
    /\ hook = "classify-prompt"
    /\ \E i \in 1..Len(stdout) : stdout[i].tag = "TASK_TYPE"
    /\ config.kind = "valid"
    /\ config.logging = "off"
    /\ writable
    /\ ~dirExists

SplitRequests == requests.requests

\* C8: classify_prompt returns CODING_TASK when classify_single gives
\* CODING_TASK for some request of split_requests and QUICK_QUESTION
\* otherwise, with one (request, type) pair per request, in split order.
C8_OverallIsAnyCoding ==
    phase = "done" =>
        /\ overall = IF \E n \in 1..Len(SplitRequests) :
                            classify_single(SplitRequests[n]) = "CODING_TASK"
                     THEN "CODING_TASK" ELSE "QUICK_QUESTION"
        /\ Len(classified) = Len(SplitRequests)
        /\ \A n \in 1..Len(classified) :
               /\ classified[n][1] = SplitRequests[n]
               /\ classified[n][2] = classify_single(SplitRequests[n])

C8_Witness ==
    /\ phase = "done"
    /\ Len(classified) = 2
    /\ classified[1][2] = "QUICK_QUESTION"
    /\ classified[2][2] = "CODING_TASK"
    /\ overall = "CODING_TASK"

\* C9: a request matching a coding pattern is CODING_TASK even when it also
\* matches a quick pattern; a request matching no coding pattern is
\* QUICK_QUESTION whether or not it matches a quick pattern.
C9_CodingPatternsFirst ==
    phase = "done" =>
        \A n \in 1..Len(classified) :
            classified[n][2] = IF MatchesCoding(classified[n][1])
                               THEN "CODING_TASK" ELSE "QUICK_QUESTION"

C9_Witness ==
    /\ phase = "done"
    /\ \E n \in 1..Len(classified) :
           /\ MatchesCoding(classified[n][1])
           /\ MatchesQuick(classified[n][1])
           /\ classified[n][2] = "CODING_TASK"

SomeLineDelimited ==
    \E l \in 1..Len(prompt) : is_delimiter_line(StripLine(prompt[l]))

\* C10: for a prompt in which some line starts with an explicit delimiter,
\* the result of split_requests is never obtained by splitting on an
\* implicit separator.
C10_NoImplicitSplitWhenDelimited ==
    (phase = "done" /\ SomeLineDelimited) => requests.via # "implicit"

\* the summary analyze_entries returned
Summary == stdout[1]
SummaryComputed == hook = "analyze" /\ stdout # <<>>

\* C11: for every list of log entries, the summary analyze_entries computes
\* partitions its counts: total_events is the number of entries, coding
\* tasks plus quick questions are the prompts, stops with and without code
\* changes are the session stops, tests passed plus tests failed are the
\* tests run, and the three totals together are at most total_events.
C11_CountsPartition ==
    SummaryComputed =>
        /\ Summary.total_events = Len(log)
        /\ Summary.prompts.coding_tasks + Summary.prompts.quick_questions
             = Summary.prompts.total
        /\ Summary.session_stops.with_code_changes
             + Summary.session_stops.without_code_changes
             = Summary.session_stops.total
        /\ Summary.session_stops.tests_passed
             + Summary.session_stops.tests_failed
             = Summary.session_stops.tests_run
        /\ Summary.prompts.total + Summary.subagent_stops.total
             + Summary.session_stops.total <= Summary.total_events

C11_Witness ==
    /\ SummaryComputed
    /\ Summary.total_events = 3
    /\ Summary.prompts.total = 1
    /\ Summary.prompts.quick_questions = 1
    /\ Summary.session_stops.total = 1
    /\ Summary.session_stops.tests_failed = 1
    /\ Summary.subagent_stops.total = 0

\* C12: the two gates agree: on the same testCommands configuration and the
\* same outcome of each command, the Stop gate blocks exactly when the
\* SubagentStop gate blocked, whatever the command names in testCommands.
C12_GatesAgree ==
    [][(hook = "test-gate" /\ hook' = "smart-stop")
          => (BlockPrinted' <=> BlockPrinted)]_vars
====
